---- MODULE Spec2Model ----
(***************************************************************************)
(* Model of example/mpii_kd.py: the mixed-supervision distillation loss of *)
(* train() and the epoch orchestrator of main().                           *)
(*                                                                         *)
(* Real numbers are exact rationals <<n, d>> in lowest terms (n >= 0,      *)
(* d > 0); floating-point rounding is not modelled.  A heatmap of one      *)
(* sample is the sequence of its channel x height x width elements.        *)
(***************************************************************************)
EXTENDS Integers, Sequences, FiniteSets, TLC

VARIABLES
    \* ---- train(): one iteration of the batch loop ----
    lpc,                \* position in the iteration: "load", "loaded", "stepped"
    kdloss_alpha,       \* argument kdloss_alpha of train()
    output,             \* student output: stage -> sample -> element
    toutput,            \* teacher output (last stage, detached): sample -> element
    target_var,         \* ground-truth heatmaps: sample -> element
    gtmask,             \* meta['gtmask']: sample -> mask value
    gtloss,
    kdloss,
    kdloss_unlabeled,
    total_loss,
    backward,           \* the loss total_loss.backward() was called on, or NoLoss
    \* ---- main(): the epoch orchestrator ----
    pc,                 \* position of the process in main(), "idle" when none runs
    runs,               \* number of processes launched so far
    args,               \* the parsed command line of the running process
    store,              \* the checkpoint file on disk: its record, or NoRecord
    best_acc,           \* the global best_acc
    checkpoint,         \* the record torch.load(args.resume) returned, or NoRecord
    logger,             \* the local logger: "unbound", "open" or "closed"
    logged,             \* log entries appended by this process
    opt_lr,             \* the learning rate held by the optimizer
    lr,                 \* the local lr
    sigma,              \* sigma of the train and validation datasets
    epoch,              \* the loop variable
    valid_acc,          \* accuracy returned by the last validate()
    nTrain,             \* train() passes of this process
    nValid,             \* validate() passes of this process
    nCkpt,              \* save_checkpoint() calls of this process
    emitted,            \* what the last save_checkpoint() of this process was given
    preds_saved,        \* save_pred() was called
    model,              \* the student's weights: the training passes they have had
    \* ---- history, kept beside the program state ----
    chain,              \* epochs trained and best accuracy validated, over this process
                        \* and the processes whose checkpoint it continues
    storeChain          \* chain of the process that wrote the checkpoint file, as of then

lossVars == <<lpc, kdloss_alpha, output, toutput, target_var, gtmask,
              gtloss, kdloss, kdloss_unlabeled, total_loss, backward>>

mainVars == <<pc, runs, args, store, best_acc, checkpoint, logger, logged, opt_lr, lr,
              sigma, epoch, valid_acc, nTrain, nValid, nCkpt, emitted, preds_saved, model,
              chain, storeChain>>

vars == <<lossVars, mainVars>>

----------------------------------------------------------------------------
(* Bounds of the model *)

\* largest batch size drawn
MaxBatch == 2
\* largest number of elements of one sample's heatmap
MaxPix == 2
\* largest number of elements of the whole student output (stages x batch x elements)
MaxElems == 4
\* heatmap confidences drawn for every element
PixelValues == {0, 2}
\* largest --epochs drawn
MaxEpochs == 3
\* validation accuracies are drawn from 0..MaxAcc
MaxAcc == 2
\* processes launched one after the other on the same checkpoint directory
MaxRuns == 2

----------------------------------------------------------------------------
(* Exact rational arithmetic *)

RECURSIVE GCD(_, _)
GCD(a, b) == IF b = 0 THEN a ELSE GCD(b, a % b)

Rat(n, d) == LET g == GCD(n, d) IN <<n \div g, d \div g>>

Zero == <<0, 1>>
One == <<1, 1>>

RatAdd(x, y) == Rat(x[1] * y[2] + y[1] * x[2], x[2] * y[2])
RatMul(x, y) == Rat(x[1] * y[1], x[2] * y[2])
RatDivInt(x, k) == Rat(x[1], x[2] * k)
RatLess(x, y) == x[1] * y[2] < y[1] * x[2]
\* 1 - x, for 0 <= x <= 1
OneMinus(x) == Rat(x[2] - x[1], x[2])

----------------------------------------------------------------------------
(* train(): the loss of one batch *)

NoLoss == <<>>

RECURSIVE SumSq(_, _, _)
SumSq(x, y, k) ==
    IF k > Len(x) THEN 0
    ELSE (x[k] - y[k]) * (x[k] - y[k]) + SumSq(x, y, k + 1)

\* torch.nn.MSELoss(size_average=True): the mean of the squared differences
criterion(x, y) == Rat(SumSq(x, y, 1), Len(x))

\* mutant of train_batch: the number of stages, len(output), taken for the batch size
train_batch_stages(b) == Len(b.output)

\* train_batch = score_map.shape[0], score_map being output[-1]
train_batch(b) == Len(b.output[Len(b.output)])

\* gtmask[i] < 0.1
Threshold == Rat(1, 10)
IsUnlabeled(m) == RatLess(m, Threshold)

\* mutant of SampleStep: the else is lost, every sample is also treated as labeled
SampleStepNoElse(b, j, i, acc) ==
    LET a == IF IsUnlabeled(b.gtmask[i])
             THEN [acc EXCEPT !.kdloss_unlabeled =
                     RatAdd(@, RatDivInt(criterion(b.output[j][i], b.toutput[i]), train_batch(b)))]
             ELSE acc
    IN [a EXCEPT
          !.gtloss = RatAdd(@, RatDivInt(criterion(b.output[j][i], b.target_var[i]), train_batch(b))),
          !.kdloss = RatAdd(@, RatDivInt(criterion(b.output[j][i], b.toutput[i]), train_batch(b)))]

\* mutant of SampleStep: the mask of the first sample decides for every sample
SampleStepFirstMask(b, j, i, acc) ==
    IF IsUnlabeled(b.gtmask[1])
    THEN [acc EXCEPT !.kdloss_unlabeled =
            RatAdd(@, RatDivInt(criterion(b.output[j][i], b.toutput[i]), train_batch(b)))]
    ELSE [acc EXCEPT
            !.gtloss = RatAdd(@, RatDivInt(criterion(b.output[j][i], b.target_var[i]), train_batch(b))),
            !.kdloss = RatAdd(@, RatDivInt(criterion(b.output[j][i], b.toutput[i]), train_batch(b)))]

\* body of the loop over the samples, for stage j and sample i
SampleStep(b, j, i, acc) ==
    IF IsUnlabeled(b.gtmask[i])
    THEN [acc EXCEPT !.kdloss_unlabeled =
            RatAdd(@, RatDivInt(criterion(b.output[j][i], b.toutput[i]), train_batch(b)))]
    ELSE [acc EXCEPT
            !.gtloss = RatAdd(@, RatDivInt(criterion(b.output[j][i], b.target_var[i]), train_batch(b))),
            !.kdloss = RatAdd(@, RatDivInt(criterion(b.output[j][i], b.toutput[i]), train_batch(b)))]

\* for i in range(gtmask.shape[0])
RECURSIVE SampleLoop(_, _, _, _)
SampleLoop(b, j, i, acc) ==
    IF i > Len(b.gtmask) THEN acc
    ELSE SampleLoop(b, j, i + 1, SampleStep(b, j, i, acc))

\* for j in range(0, len(output))
RECURSIVE StageLoop(_, _, _)
StageLoop(b, j, acc) ==
    IF j > Len(b.output) THEN acc
    ELSE StageLoop(b, j + 1, SampleLoop(b, j, 1, acc))

\* the three accumulators, zero at the start of every batch
ZeroLosses == [gtloss |-> Zero, kdloss |-> Zero, kdloss_unlabeled |-> Zero]

Losses(b) == StageLoop(b, 1, ZeroLosses)

unkdloss_alpha == One

\* mutant of loss_labeled: the two weights exchanged
loss_labeled_swapped(alpha, kd, gt) == RatAdd(RatMul(OneMinus(alpha), kd), RatMul(alpha, gt))

loss_labeled(alpha, kd, gt) == RatAdd(RatMul(alpha, kd), RatMul(OneMinus(alpha), gt))

TotalLoss(alpha, l) ==
    RatAdd(loss_labeled(alpha, l.kdloss, l.gtloss), RatMul(unkdloss_alpha, l.kdloss_unlabeled))

----------------------------------------------------------------------------
(* The batches drawn *)

MaskValues == {Rat(0, 1), Rat(1, 10), Rat(1, 1)}
AlphaValues == {Rat(0, 1), Rat(1, 4), Rat(1, 1)}

Shapes == {s \in (1..MaxBatch) \X (1..MaxElems) \X (1..MaxPix) :
             s[1] * s[2] * s[3] <= MaxElems}

Heatmap(P) == [1..P -> PixelValues]
HeatmapBatch(B, P) == [1..B -> Heatmap(P)]

CurrentBatch == [output |-> output, toutput |-> toutput,
                 target_var |-> target_var, gtmask |-> gtmask]

LossInit ==
    /\ lpc = "load"
    /\ kdloss_alpha \in AlphaValues
    /\ output = <<>>
    /\ toutput = <<>>
    /\ target_var = <<>>
    /\ gtmask = <<>>
    /\ gtloss = Zero
    /\ kdloss = Zero
    /\ kdloss_unlabeled = Zero
    /\ total_loss = Zero
    /\ backward = NoLoss

\* the loader yields a batch; student and teacher forward passes
LoadBatch ==
    /\ lpc = "load"
    /\ \E s \in Shapes :
         /\ output' \in [1..s[2] -> HeatmapBatch(s[1], s[3])]
         /\ toutput' \in HeatmapBatch(s[1], s[3])
         /\ target_var' \in HeatmapBatch(s[1], s[3])
         /\ gtmask' \in [1..s[1] -> MaskValues]
    /\ lpc' = "loaded"
    /\ UNCHANGED <<kdloss_alpha, gtloss, kdloss, kdloss_unlabeled, total_loss, backward>>
    /\ UNCHANGED mainVars

\* the losses of the batch and the optimizer step
TrainStep ==
    /\ lpc = "loaded"
    /\ LET l == Losses(CurrentBatch) IN
         /\ gtloss' = l.gtloss
         /\ kdloss' = l.kdloss
         /\ kdloss_unlabeled' = l.kdloss_unlabeled
         /\ total_loss' = TotalLoss(kdloss_alpha, l)
         /\ backward' = TotalLoss(kdloss_alpha, l)
    /\ lpc' = "stepped"
    /\ UNCHANGED <<kdloss_alpha, output, toutput, target_var, gtmask>>
    /\ UNCHANGED mainVars

----------------------------------------------------------------------------
(* main(): the epoch orchestrator *)

Unset == <<>>
NoRecord == <<>>

\* --lr, --gamma and --sigma at their defaults
DefaultLr == Rat(1, 4000)
DefaultGamma == Rat(1, 10)
DefaultSigma == Rat(1, 1)

Acc == 0..MaxAcc
Schedules == SUBSET (0..(MaxEpochs - 1))
SigmaDecays == {Zero, Rat(1, 2)}
ResumePaths == {"", "checkpoint.pth.tar", "nofile"}
TeacherPaths == {"teacher.pth.tar", "nofile"}

\* the checkpoint directory holds checkpoint.pth.tar once a record was saved
isfile(path) == path = "checkpoint.pth.tar" /\ store # NoRecord
TeacherFound(path) == path = "teacher.pth.tar"

Max(a, b) == IF a >= b THEN a ELSE b

\* pose.utils.misc.adjust_learning_rate: on a milestone the rate is multiplied
\* by gamma and written to the optimizer; the rate is returned
adjust_learning_rate(optimizer_lr, e, rate, schedule, gamma) ==
    IF e \in schedule
    THEN [lr |-> RatMul(rate, gamma), optimizer |-> RatMul(rate, gamma)]
    ELSE [lr |-> rate, optimizer |-> optimizer_lr]

\* mutant of IsBest: an equal accuracy counts as better
IsBestOrEqual(valid, best) == valid >= best

\* is_best = valid_acc > best_acc
IsBest(valid, best) == valid > best

\* mutant of NewBest: the last accuracy replaces the best
NewBestLast(valid, best) == valid

\* best_acc = max(valid_acc, best_acc)
NewBest(valid, best) == Max(valid, best)

\* mutant of CheckpointState: the loop index is stored, not the next one
CheckpointStateSameEpoch(e, weights, best, optimizer_lr) ==
    [epoch |-> e, state_dict |-> weights, best_acc |-> best, optimizer |-> optimizer_lr]

\* mutant of AfterEvaluate: the return is lost and the epoch loop is entered
AfterEvaluateNoReturn == "enter"

\* the return that ends the evaluate-only branch
AfterEvaluate == "closed"

\* the state dictionary main() hands to save_checkpoint
CheckpointState(e, weights, best, optimizer_lr) ==
    [epoch |-> e + 1, state_dict |-> weights, best_acc |-> best, optimizer |-> optimizer_lr]

\* save_checkpoint: the record replaces checkpoint.pth.tar
save_checkpoint(state, is_best) == <<state>>

\* no epoch trained, no accuracy validated
NoChain == [trained |-> <<>>, seen |-> 0]

Running == {"teacher", "resume", "mode", "enter", "loop", "sigma", "train",
            "validate", "log", "checkpoint"}
Ended == {"closed", "crashed", "aborted"}

\* the state of a process that has just started: module globals and the
\* locals of main() before their first assignment
ProcessStart ==
    /\ best_acc' = 0
    /\ checkpoint' = NoRecord
    /\ logger' = "unbound"
    /\ logged' = 0
    /\ opt_lr' = Unset
    /\ lr' = Unset
    /\ sigma' = DefaultSigma
    /\ epoch' = Unset
    /\ valid_acc' = Unset
    /\ nTrain' = 0
    /\ nValid' = 0
    /\ nCkpt' = 0
    /\ emitted' = NoRecord
    /\ preds_saved' = FALSE
    /\ model' = 0
    /\ chain' = NoChain

MainInit ==
    /\ pc = "idle"
    /\ runs = 0
    /\ args \in [epochs : 0..MaxEpochs, schedule : Schedules, sigma_decay : SigmaDecays,
                 lr : {DefaultLr}, gamma : {DefaultGamma}, start_epoch : {0},
                 evaluate : {FALSE}, resume : {""}, teacher_checkpoint : {"teacher.pth.tar"}]
    /\ store = NoRecord
    /\ best_acc = 0
    /\ checkpoint = NoRecord
    /\ logger = "unbound"
    /\ logged = 0
    /\ opt_lr = Unset
    /\ lr = Unset
    /\ sigma = DefaultSigma
    /\ epoch = Unset
    /\ valid_acc = Unset
    /\ nTrain = 0
    /\ nValid = 0
    /\ nCkpt = 0
    /\ emitted = NoRecord
    /\ preds_saved = FALSE
    /\ model = 0
    /\ chain = NoChain
    /\ storeChain = NoChain

\* the script is started: --evaluate, --resume and --teacher_checkpoint are
\* chosen, the other arguments are those of the first launch
Launch ==
    /\ pc \in Ended \cup {"idle"}
    /\ runs < MaxRuns
    /\ \E ev \in BOOLEAN, rs \in ResumePaths, tc \in TeacherPaths :
         args' = [args EXCEPT !.evaluate = ev, !.resume = rs,
                              !.teacher_checkpoint = tc, !.start_epoch = 0]
    /\ runs' = runs + 1
    /\ pc' = "teacher"
    /\ ProcessStart
    /\ UNCHANGED <<store, storeChain>>
    /\ UNCHANGED lossVars

\* load_teacher_network, the student and the optimizer
CreateModels ==
    /\ pc = "teacher"
    /\ IF TeacherFound(args.teacher_checkpoint)
       THEN /\ opt_lr' = args.lr
            /\ pc' = "resume"
       ELSE /\ opt_lr' = opt_lr
            /\ pc' = "aborted"
    /\ UNCHANGED <<runs, args, store, best_acc, checkpoint, logger, logged, lr, sigma, epoch,
                   valid_acc, nTrain, nValid, nCkpt, emitted, preds_saved, model>>
    /\ UNCHANGED <<chain, storeChain>>
    /\ UNCHANGED lossVars

\* optionally resume from a checkpoint
Resume ==
    /\ pc = "resume"
    /\ IF args.resume # ""
       THEN IF isfile(args.resume)
            THEN /\ checkpoint' = store
                 /\ args' = [args EXCEPT !.start_epoch = store[1].epoch]
                 /\ best_acc' = store[1].best_acc
                 /\ model' = store[1].state_dict
                 /\ opt_lr' = store[1].optimizer
                 /\ logger' = "open"
                 /\ chain' = storeChain
            ELSE UNCHANGED <<checkpoint, args, best_acc, model, opt_lr, logger, chain>>
       ELSE /\ logger' = "open"
            /\ UNCHANGED <<checkpoint, args, best_acc, model, opt_lr, chain>>
    /\ pc' = "mode"
    /\ UNCHANGED storeChain
    /\ UNCHANGED <<runs, store, logged, lr, sigma, epoch, valid_acc, nTrain, nValid, nCkpt,
                   emitted, preds_saved>>
    /\ UNCHANGED lossVars

\* if args.evaluate: one validation pass, save_pred, return
EvaluateOnly ==
    /\ pc = "mode"
    /\ args.evaluate
    /\ \E a \in Acc : valid_acc' = a
    /\ nValid' = nValid + 1
    /\ preds_saved' = TRUE
    /\ pc' = AfterEvaluate
    /\ UNCHANGED <<runs, args, store, best_acc, checkpoint, logger, logged, opt_lr, lr, sigma,
                   epoch, nTrain, nCkpt, emitted, model>>
    /\ UNCHANGED <<chain, storeChain>>
    /\ UNCHANGED lossVars

SkipEvaluate ==
    /\ pc = "mode"
    /\ ~args.evaluate
    /\ pc' = "enter"
    /\ UNCHANGED <<runs, args, store, best_acc, checkpoint, logger, logged, opt_lr, lr, sigma,
                   epoch, valid_acc, nTrain, nValid, nCkpt, emitted, preds_saved, model>>
    /\ UNCHANGED <<chain, storeChain>>
    /\ UNCHANGED lossVars

\* lr = args.lr; the loop starts at args.start_epoch
EnterLoop ==
    /\ pc = "enter"
    /\ lr' = args.lr
    /\ epoch' = args.start_epoch
    /\ pc' = "loop"
    /\ UNCHANGED <<runs, args, store, best_acc, checkpoint, logger, logged, opt_lr, sigma,
                   valid_acc, nTrain, nValid, nCkpt, emitted, preds_saved, model>>
    /\ UNCHANGED <<chain, storeChain>>
    /\ UNCHANGED lossVars

\* an epoch begins: lr = adjust_learning_rate(...)
AdjustLr ==
    /\ pc = "loop"
    /\ epoch < args.epochs
    /\ LET r == adjust_learning_rate(opt_lr, epoch, lr, args.schedule, args.gamma) IN
         /\ lr' = r.lr
         /\ opt_lr' = r.optimizer
    /\ pc' = "sigma"
    /\ UNCHANGED <<runs, args, store, best_acc, checkpoint, logger, logged, sigma, epoch,
                   valid_acc, nTrain, nValid, nCkpt, emitted, preds_saved, model>>
    /\ UNCHANGED <<chain, storeChain>>
    /\ UNCHANGED lossVars

\* decay sigma
DecaySigma ==
    /\ pc = "sigma"
    /\ sigma' = IF RatLess(Zero, args.sigma_decay) THEN RatMul(sigma, args.sigma_decay)
                ELSE sigma
    /\ pc' = "train"
    /\ UNCHANGED <<runs, args, store, best_acc, checkpoint, logger, logged, opt_lr, lr, epoch,
                   valid_acc, nTrain, nValid, nCkpt, emitted, preds_saved, model>>
    /\ UNCHANGED <<chain, storeChain>>
    /\ UNCHANGED lossVars

\* train for one epoch
Train ==
    /\ pc = "train"
    /\ nTrain' = nTrain + 1
    /\ model' = model + 1
    /\ chain' = [chain EXCEPT !.trained = Append(@, epoch)]
    /\ UNCHANGED storeChain
    /\ pc' = "validate"
    /\ UNCHANGED <<runs, args, store, best_acc, checkpoint, logger, logged, opt_lr, lr, sigma,
                   epoch, valid_acc, nValid, nCkpt, emitted, preds_saved>>
    /\ UNCHANGED lossVars

\* evaluate on validation set
Validate ==
    /\ pc = "validate"
    /\ \E a \in Acc : valid_acc' = a
    /\ nValid' = nValid + 1
    /\ pc' = "log"
    /\ UNCHANGED <<runs, args, store, best_acc, checkpoint, logger, logged, opt_lr, lr, sigma,
                   epoch, nTrain, nCkpt, emitted, preds_saved, model>>
    /\ UNCHANGED <<chain, storeChain>>
    /\ UNCHANGED lossVars

\* logger.append: the name logger is unbound when --resume names no file
LogAppend ==
    /\ pc = "log"
    /\ IF logger = "unbound"
       THEN /\ pc' = "crashed"
            /\ logged' = logged
       ELSE /\ pc' = "checkpoint"
            /\ logged' = logged + 1
    /\ UNCHANGED <<runs, args, store, best_acc, checkpoint, logger, opt_lr, lr, sigma, epoch,
                   valid_acc, nTrain, nValid, nCkpt, emitted, preds_saved, model>>
    /\ UNCHANGED <<chain, storeChain>>
    /\ UNCHANGED lossVars

\* remember best acc and save checkpoint; the loop goes to the next epoch
Checkpoint ==
    /\ pc = "checkpoint"
    /\ LET is_best == IsBest(valid_acc, best_acc)
           best == NewBest(valid_acc, best_acc)
           state == CheckpointState(epoch, model, best, opt_lr)
       IN /\ best_acc' = best
          /\ store' = save_checkpoint(state, is_best)
          /\ emitted' = <<[state |-> state, is_best |-> is_best]>>
    /\ chain' = [chain EXCEPT !.seen = Max(@, valid_acc)]
    /\ storeChain' = [chain EXCEPT !.seen = Max(@, valid_acc)]
    /\ nCkpt' = nCkpt + 1
    /\ epoch' = epoch + 1
    /\ pc' = "loop"
    /\ UNCHANGED <<runs, args, checkpoint, logger, logged, opt_lr, lr, sigma, valid_acc,
                   nTrain, nValid, preds_saved, model>>
    /\ UNCHANGED lossVars

\* the loop is over: logger.close()
Finish ==
    /\ pc = "loop"
    /\ epoch >= args.epochs
    /\ IF logger = "unbound"
       THEN /\ pc' = "crashed"
            /\ logger' = logger
       ELSE /\ pc' = "closed"
            /\ logger' = "closed"
    /\ UNCHANGED <<runs, args, store, best_acc, checkpoint, logged, opt_lr, lr, sigma, epoch,
                   valid_acc, nTrain, nValid, nCkpt, emitted, preds_saved, model>>
    /\ UNCHANGED <<chain, storeChain>>
    /\ UNCHANGED lossVars

\* an external signal stops the process; the checkpoint file stays
Interrupt ==
    /\ pc \in Running
    /\ pc' = "idle"
    /\ ProcessStart
    /\ UNCHANGED <<runs, args, store, storeChain>>
    /\ UNCHANGED lossVars

----------------------------------------------------------------------------
(* The specifications *)

\* no batch is in work while main() is followed
LossIdle ==
    /\ lpc = "load"
    /\ kdloss_alpha = Rat(1, 2)
    /\ output = <<>>
    /\ toutput = <<>>
    /\ target_var = <<>>
    /\ gtmask = <<>>
    /\ gtloss = Zero
    /\ kdloss = Zero
    /\ kdloss_unlabeled = Zero
    /\ total_loss = Zero
    /\ backward = NoLoss

\* no process runs while one batch of train() is followed
MainIdle ==
    /\ MainInit
    /\ args.epochs = 0
    /\ args.schedule = {}
    /\ args.sigma_decay = Zero

Init == MainInit /\ LossIdle

Next ==
    \/ Launch
    \/ CreateModels
    \/ Resume
    \/ EvaluateOnly
    \/ SkipEvaluate
    \/ EnterLoop
    \/ AdjustLr
    \/ DecaySigma
    \/ Train
    \/ Validate
    \/ LogAppend
    \/ Checkpoint
    \/ Finish
    \/ Interrupt

Spec == Init /\ [][Next]_vars

LossNext == LoadBatch \/ TrainStep

LossStart == LossInit /\ MainIdle

LossSpec == LossStart /\ [][LossNext]_vars

----------------------------------------------------------------------------
(* Properties of the loss *)

BatchSize == Len(gtmask)
Stages == Len(output)
Unlabeled == {i \in 1..BatchSize : IsUnlabeled(gtmask[i])}
Labeled == (1..BatchSize) \ Unlabeled

ZeroHeatmap(h) == [k \in 1..Len(h) |-> 0]

\* the batch b with the heatmaps of the samples in I replaced by zeros
ZeroOut(b, I) ==
    [output |-> [j \in 1..Len(b.output) |->
                    [i \in 1..Len(b.gtmask) |->
                        IF i \in I THEN ZeroHeatmap(b.output[j][i]) ELSE b.output[j][i]]],
     toutput |-> [i \in 1..Len(b.gtmask) |->
                    IF i \in I THEN ZeroHeatmap(b.toutput[i]) ELSE b.toutput[i]],
     target_var |-> [i \in 1..Len(b.gtmask) |->
                    IF i \in I THEN ZeroHeatmap(b.target_var[i]) ELSE b.target_var[i]],
     gtmask |-> b.gtmask]

\* C1: every sample takes exactly one branch: the unlabeled-distillation loss
\* does not depend on the heatmaps of the labeled samples, the ground-truth
\* and labeled-distillation losses do not depend on those of the unlabeled
\* samples; the unlabeled-distillation loss is 0 when every sample is
\* labeled, the other two are 0 when every sample is unlabeled.
C1_OneBranchPerSample ==
    lpc = "stepped" =>
        /\ kdloss_unlabeled = Losses(ZeroOut(CurrentBatch, Labeled)).kdloss_unlabeled
        /\ gtloss = Losses(ZeroOut(CurrentBatch, Unlabeled)).gtloss
        /\ kdloss = Losses(ZeroOut(CurrentBatch, Unlabeled)).kdloss
        /\ (Unlabeled = {} => kdloss_unlabeled = Zero)
        /\ (Labeled = {} => gtloss = Zero /\ kdloss = Zero)

\* a stepped batch of both classes in which every sample differs from the
\* teacher and the labeled one from the ground truth
C1_Witness ==
    /\ lpc = "stepped"
    /\ Labeled # {} /\ Unlabeled # {}
    /\ \A i \in 1..BatchSize : output[1][i] # toutput[i]
    /\ \A i \in Labeled : output[1][i] # target_var[i]
    /\ kdloss_unlabeled # Zero /\ gtloss # Zero /\ kdloss # Zero

RECURSIVE RatSum(_, _, _, _)
\* the sum over the pairs <<stage, sample>> of D of the sample's mean squared
\* error against ref
RatSum(D, out, ref, sum) ==
    IF D = {} THEN sum
    ELSE LET d == CHOOSE d \in D : TRUE
         IN RatSum(D \ {d}, out, ref, RatAdd(sum, criterion(out[d[1]][d[2]], ref[d[2]])))

ClassSum(I, ref) == RatSum((1..Stages) \X I, output, ref, Zero)

\* the scenario: two samples, mask [0.0, 1.0], one stage, student = teacher =
\* ground truth except that the ground truth of the second sample is the
\* student plus delta at every element
Scenario(delta) ==
    /\ BatchSize = 2 /\ Stages = 1
    /\ gtmask = <<Rat(0, 1), Rat(1, 1)>>
    /\ output[1] = toutput
    /\ target_var[1] = output[1][1]
    /\ \A k \in 1..Len(target_var[2]) : target_var[2][k] = output[1][2][k] + delta

Deltas == {x - y : x, y \in PixelValues} \ {0}

\* C2: every component is 1/B times the sum, over the stages and the samples
\* of its class, of the per-sample mean squared error, B the full batch size;
\* in the scenario the components are 0, 0 and delta^2 / 2.
C2_FullBatchNormalisation ==
    lpc = "stepped" =>
        /\ RatMul(gtloss, Rat(BatchSize, 1)) = ClassSum(Labeled, target_var)
        /\ RatMul(kdloss, Rat(BatchSize, 1)) = ClassSum(Labeled, toutput)
        /\ RatMul(kdloss_unlabeled, Rat(BatchSize, 1)) = ClassSum(Unlabeled, toutput)
        /\ \A delta \in Deltas :
              Scenario(delta) =>
                  /\ kdloss_unlabeled = Zero
                  /\ kdloss = Zero
                  /\ gtloss = Rat(delta * delta, 2)

\* the scenario on heatmaps of more than one element, stepped
C2_Witness ==
    /\ lpc = "stepped"
    /\ \E delta \in Deltas : Scenario(delta)
    /\ Len(toutput[1]) > 1
    /\ gtloss # Zero

\* C3: the loss handed to the optimizer is alpha * labeled-distillation loss
\* + (1 - alpha) * ground-truth loss + unlabeled-distillation loss, the three
\* being the sums over the stages of this batch alone.
C3_TotalLoss ==
    lpc = "stepped" =>
        /\ backward = RatAdd(RatAdd(RatMul(kdloss_alpha, kdloss),
                                    RatMul(OneMinus(kdloss_alpha), gtloss)),
                             kdloss_unlabeled)
        /\ RatMul(gtloss, Rat(BatchSize, 1)) = ClassSum(Labeled, target_var)
        /\ RatMul(kdloss, Rat(BatchSize, 1)) = ClassSum(Labeled, toutput)
        /\ RatMul(kdloss_unlabeled, Rat(BatchSize, 1)) = ClassSum(Unlabeled, toutput)

\* a stepped batch of two stages whose three components are all non-zero,
\* under a weight that is neither 0 nor 1
C3_Witness ==
    /\ lpc = "stepped"
    /\ Stages = 2
    /\ kdloss_alpha = Rat(1, 4)
    /\ gtloss # Zero /\ kdloss # Zero /\ kdloss_unlabeled # Zero
    /\ backward # Zero

Perms(n) == {p \in [1..n -> 1..n] : \A a, c \in 1..n : p[a] = p[c] => a = c}

\* the batch b with its samples reordered by p
Permute(b, p) ==
    [output |-> [j \in 1..Len(b.output) |-> [i \in 1..Len(b.gtmask) |-> b.output[j][p[i]]]],
     toutput |-> [i \in 1..Len(b.gtmask) |-> b.toutput[p[i]]],
     target_var |-> [i \in 1..Len(b.gtmask) |-> b.target_var[p[i]]],
     gtmask |-> [i \in 1..Len(b.gtmask) |-> b.gtmask[p[i]]]]

\* C10: the total loss and its three components are the same for every
\* reordering of the samples applied alike to the student stages, the
\* teacher, the ground truth and the mask.
C10_PermutationInvariant ==
    lpc = "stepped" =>
        \A p \in Perms(BatchSize) :
            LET l == Losses(Permute(CurrentBatch, p)) IN
                /\ l.gtloss = gtloss
                /\ l.kdloss = kdloss
                /\ l.kdloss_unlabeled = kdloss_unlabeled
                /\ TotalLoss(kdloss_alpha, l) = total_loss

\* a stepped batch of one unlabeled and one labeled sample with different
\* heatmaps and different per-sample errors
C10_Witness ==
    /\ lpc = "stepped"
    /\ BatchSize = 2
    /\ Labeled # {} /\ Unlabeled # {}
    /\ output[1][1] # output[1][2]
    /\ toutput[1] # toutput[2]
    /\ criterion(output[1][1], toutput[1]) # criterion(output[1][2], toutput[2])
    /\ total_loss # Zero

----------------------------------------------------------------------------
(* Properties of the orchestrator *)

\* a step of the running process: no process is launched or stopped by it
SameProcess == runs' = runs /\ pc' # "idle"

\* C4: best_acc never decreases in a process, the step that restores it from
\* the resume checkpoint included; the best_acc of every checkpoint record is
\* at least that of the record before it and at least the restored one.
C4_BestAccNeverDecreases ==
    [][SameProcess =>
          /\ best_acc' >= best_acc
          /\ (emitted # NoRecord /\ emitted' # NoRecord =>
                emitted'[1].state.best_acc >= emitted[1].state.best_acc)
          /\ (checkpoint' # NoRecord /\ emitted' # NoRecord =>
                emitted'[1].state.best_acc >= checkpoint'[1].best_acc)]_vars

\* a resumed process has saved a record after a validation accuracy below the
\* restored best
C4_Witness ==
    /\ checkpoint # NoRecord
    /\ emitted # NoRecord
    /\ checkpoint[1].best_acc > 0
    /\ valid_acc < checkpoint[1].best_acc
    /\ best_acc = checkpoint[1].best_acc
    /\ emitted[1].state.best_acc = checkpoint[1].best_acc

\* C5: at the checkpoint decision is_best holds exactly when the validation
\* accuracy is strictly greater than best_acc before it; then best_acc becomes
\* that accuracy, otherwise it stays and the record is not tagged best.
C5_StrictlyGreaterIsBest ==
    [][pc = "checkpoint" /\ pc' = "loop" =>
          /\ emitted'[1].is_best <=> (valid_acc > best_acc)
          /\ valid_acc > best_acc => best_acc' = valid_acc
          /\ valid_acc <= best_acc => best_acc' = best_acc /\ ~emitted'[1].is_best
          /\ emitted'[1].state.best_acc = best_acc']_vars

\* the first epoch of a fresh run validated at 0, the initial best: the
\* record is saved untagged and best_acc is still 0
C5_Witness ==
    /\ pc = "loop"
    /\ checkpoint = NoRecord
    /\ nCkpt = 1
    /\ valid_acc = 0
    /\ best_acc = 0
    /\ ~emitted[1].is_best

\* the epochs a training run has to go through
EpochsToRun == Max(0, args.epochs - args.start_epoch)

AfterResume == {"mode", "enter", "loop", "sigma", "train", "validate", "log",
                "checkpoint", "closed", "crashed"}

\* C6: in training mode every epoch is a training pass, then a validation
\* pass, then one checkpoint record, the epochs follow each other in
\* increasing index, and the run ends Closed after max(0, epochs -
\* start_epoch) epochs.
C6_SequentialEpochs ==
    (~args.evaluate /\ pc \in AfterResume) =>
        /\ nValid <= nTrain /\ nTrain <= nValid + 1
        /\ nCkpt <= nValid /\ nValid <= nCkpt + 1
        /\ (pc \in {"loop", "sigma", "train"} => nTrain = nCkpt /\ epoch = args.start_epoch + nCkpt)
        /\ (emitted # NoRecord => emitted[1].state.epoch = args.start_epoch + nCkpt)
        /\ (pc \in Ended => /\ pc = "closed"
                            /\ nTrain = EpochsToRun
                            /\ nValid = EpochsToRun
                            /\ nCkpt = EpochsToRun)

\* C7: in evaluate-only mode the one step after the resume block is a single
\* validation pass whose predictions are saved, and it ends the run: no
\* training pass, no change of the learning rate, of sigma or of best_acc, no
\* log entry and no checkpoint record, with or without a loaded checkpoint.
C7_EvaluateOnly ==
    /\ [](args.evaluate /\ pc \in AfterResume =>
            /\ pc \in {"mode", "closed"}
            /\ nTrain = 0 /\ nCkpt = 0 /\ logged = 0
            /\ emitted = NoRecord
            /\ lr = Unset
            /\ sigma = DefaultSigma
            /\ (pc = "closed" => nValid = 1 /\ preds_saved))
    /\ [][args.evaluate /\ pc = "mode" /\ SameProcess =>
            /\ pc' = "closed"
            /\ best_acc' = best_acc
            /\ opt_lr' = opt_lr
            /\ sigma' = sigma
            /\ store' = store
            /\ model' = model]_vars

\* an evaluate-only run that loaded a checkpoint has ended; its validation
\* accuracy is above the restored best, which it left alone
C7_Witness ==
    /\ args.evaluate
    /\ pc = "closed"
    /\ checkpoint # NoRecord
    /\ preds_saved
    /\ valid_acc > best_acc
    /\ best_acc = checkpoint[1].best_acc
    /\ store = checkpoint

\* C8: with --resume naming no file the run is a fresh one (start epoch and
\* best_acc initial) and, unless it ends before any training pass, every
\* epoch that trains reaches its checkpoint record.
C8_MissingResume ==
    (args.resume # "" /\ checkpoint = NoRecord /\ pc \in AfterResume) =>
        /\ args.start_epoch = 0
        /\ (nCkpt = 0 => best_acc = 0)
        /\ (pc = "crashed" => nTrain = 0)
        /\ (pc \in Ended => nTrain = nCkpt /\ logged = nTrain)

RECURSIVE RatPow(_, _)
RatPow(x, n) == IF n = 0 THEN One ELSE RatMul(x, RatPow(x, n - 1))

\* the initial rate times gamma for every milestone up to epoch e
ScheduledLr(e) ==
    RatMul(args.lr, RatPow(args.gamma, Cardinality({m \in args.schedule : m <= e})))

\* C9: at the start of every epoch e, of a fresh and of a resumed run, the
\* rate computed and the rate of the optimizer are the initial rate times
\* gamma once for every milestone m <= e.
C9_CumulativeSchedule ==
    pc = "sigma" => lr = ScheduledLr(epoch) /\ opt_lr = ScheduledLr(epoch)

\* side conditions under which C6, C8 and C9 are read
C6_LoggerBound ==
    (~(args.resume # "" /\ checkpoint = NoRecord)) => C6_SequentialEpochs
C9_FreshRun ==
    checkpoint = NoRecord => C9_CumulativeSchedule

\* the epoch indices 0 .. n-1 in their order
FirstEpochs(n) == [i \in 1..n |-> i - 1]

\* C11: the record saved at the end of loop index e holds epoch = e + 1 and
\* the best_acc already updated with the accuracy of that epoch; a process
\* that loads it starts its loop at e + 1 with that best_acc.  So the
\* processes of a chain of resumes have together trained the indices 0, 1,
\* ... once each, all of [0, epochs) when the last one closes, and best_acc
\* is then the largest accuracy validated along the chain (0 if none is
\* larger), as in a run that was never stopped.  After a completed epoch
\* the checkpoint file covers everything the chain has trained, so a stop
\* there loses nothing.
C11_ResumeRoundTrip ==
    /\ (pc = "loop" /\ nCkpt > 0 =>
            /\ emitted[1].state.epoch = epoch
            /\ emitted[1].state.best_acc = best_acc
            /\ best_acc >= valid_acc
            /\ store = <<emitted[1].state>>
            /\ storeChain = chain)
    /\ (pc = "loop" /\ nCkpt = 0 /\ checkpoint # NoRecord =>
            /\ epoch = checkpoint[1].epoch
            /\ best_acc = checkpoint[1].best_acc)
    /\ (~args.evaluate /\ pc \in {"loop", "sigma", "train"} =>
            /\ chain.trained = FirstEpochs(epoch)
            /\ best_acc = chain.seen)
    /\ (~args.evaluate /\ pc = "closed" =>
            /\ chain.trained = FirstEpochs(args.epochs)
            /\ best_acc = chain.seen)

\* a process that resumed in the middle of the epochs has closed: it trained
\* the later indices only, and its best_acc is the one restored, which the
\* accuracies it validated itself did not reach
C11_Witness ==
    /\ ~args.evaluate
    /\ pc = "closed"
    /\ checkpoint # NoRecord
    /\ checkpoint[1].epoch > 0
    /\ checkpoint[1].epoch < args.epochs
    /\ nTrain = args.epochs - checkpoint[1].epoch
    /\ chain.trained = FirstEpochs(args.epochs)
    /\ valid_acc < best_acc
    /\ best_acc = checkpoint[1].best_acc

====
